---------------------------- MODULE Spec2Model ----------------------------
(***************************************************************************)
(* A model of the notebook pipelines of alos-to-insar:                     *)
(*   alos_to_rslc   (src/notebook_pges/rslc_to_gcov.ipynb, second notebook)*)
(*   rslc_to_gcov   (src/notebook_pges/rslc_to_gcov.ipynb, first notebook) *)
(*   rslc_to_insar  (src/notebook_pges/rslc_to_insar.ipynb)                *)
(* A run is one execution of one notebook by `notebook-pge-wrapper         *)
(* execute` (src/docker/job-spec.json.alos_to_rslc): the cells run in      *)
(* order, and the first Python exception a cell raises ends the run.  A    *)
(* shell line (`!cmd`) never raises: its exit code is dropped.             *)
(***************************************************************************)
EXTENDS Integers, Sequences, FiniteSets, TLC

VARIABLES
    nb,            \* the notebook this run executes
    pc,            \* position in the notebook's cells
    err,           \* the exception that ended the run, "none" otherwise
    FOCUS_YML,     \* the loaded focus template (process-wide, mutated in place)
    INSAR_YML,     \* the loaded insar template
    GCOV_YML,      \* the loaded gcov template
    downloads,     \* names of the files in DOWNLOAD_DIR
    fs,            \* artifact paths that exist (inputs and tool outputs)
    written,       \* config path -> document persisted there
    extract_dirs,  \* rslc_to_insar: value returned by download_alos_data
    idx,           \* rslc_to_insar: enumerate() index of the focus loop
    rlsc_paths,    \* rslc_to_insar: the list the focus loop appends to
    cwd,           \* the process working directory
    invoked,       \* history: external tool invocations, in order
    entered,       \* history: stages entered, in order
    banner,        \* the SUCCESS banner was printed
    dem_s3_url,    \* rslc_to_gcov: the dem_s3_url parameter
    dem_f,         \* the DEM path handed to the config writer
    bundle,        \* stage-out: paths that exist in the stage-out directory
    materialized,  \* history: calls of the config writers, in order
    printed,       \* messages the cells have printed
    partial,       \* paths an earlier, cancelled run left incomplete
    calls          \* history: cells applied in isolation, with their results

vars == <<nb, pc, err, FOCUS_YML, INSAR_YML, GCOV_YML, downloads, fs, written,
          extract_dirs, idx, rlsc_paths, cwd, invoked, entered, banner,
          dem_s3_url, dem_f, bundle, materialized, printed, partial, calls>>

-----------------------------------------------------------------------------
(* Bounds *)

\* Files that DOWNLOAD_DIR may hold before the run starts.
MaxStale == 1

\* Cells applied one after the other when cells are exercised in isolation.
MaxCalls == 2

\* Entries of DOWNLOAD_DIR after the download, in the runs whose termination
\* is checked.
MaxFiles == 2

-----------------------------------------------------------------------------
(* Paths.  A path is a record: the directory as a sequence of components,  *)
(* the file name's stem and its extension (os.path.splitext).              *)

Path(d, s, e) == [dir |-> d, stem |-> s, ext |-> e]

\* yaml's null (an empty scalar in a template)
Null == Path(<<>>, "~null~", "")

\* a yaml sequence (a Python list) of paths
List(items) == [items |-> items]

HOME_DIR == <<"HOME">>
WORKING_DIR == <<"WORKING_DIR">>

\* os.path.join(directory, relative path)
join(d, p) == Path(d \o p.dir, p.stem, p.ext)

\* os.path.basename(path)
basename(p) == Path(<<>>, p.stem, p.ext)

\* os.path.splitext(path)[0]
splitext0(p) == Path(p.dir, p.stem, "")

IsAbs(p) == Len(p.dir) > 0 /\ p.dir[1] \in {"HOME", "WORKING_DIR"}

\* os.path.abspath(path) when the working directory is c
abspath(p, c) == IF IsAbs(p) THEN p ELSE join(c, p)


-----------------------------------------------------------------------------
(* Notebooks, directories and parameters *)

Notebooks == {"alos_to_rslc", "rslc_to_gcov", "rslc_to_insar"}

\* rslc_to_insar keeps its directories under HOME, the other two under the
\* working directory the notebook was started in.
BaseDir == IF nb = "rslc_to_insar" THEN HOME_DIR ELSE WORKING_DIR
DOWNLOAD_DIR == BaseDir \o <<"downloads">>
EXTRACT_DIR == BaseDir \o <<"alos_data">>
OUTPUT_DIR == BaseDir \o <<"output">>
PRODUCT_DIR == WORKING_DIR \o <<"product_path">>

\* the parameters cell of rslc_to_insar
rslc_1 == Path(<<"https://datapool.asf.alaska.edu", "L1.0", "A3">>,
               "ALPSRP274410710-L1.0", ".zip")
rslc_2 == Path(<<"https://datapool.asf.alaska.edu", "L1.0", "A3">>,
               "ALPSRP267700710-L1.0", ".zip")

\* the parameters cells of alos_to_rslc and rslc_to_gcov
alos_data_link == Path(<<"s3://nisar-st-data-ondemand", "ALOS-1-data-raw",
                         "RAW_216_670">>, "ALPSRP022930670-L1.0", ".zip")
gcov_data_link == Path(<<"s3://nisar-st-data-ondemand", "ALOS-1-data", "RSLC">>,
                       "ALPSRP267700710-L1.0", ".h5")
\* the timestamp parameter's default, character by character
timestamp == <<"2", "0", "2", "4", "0", "1", "3", "1", "T", "0", "1", "2", "3", "4", "5", "6">>

\* a dem_s3_url a caller may pass
DemUrl == "s3://bucket/dem.tiff"

\* a dem_s3_url that is not a string: the caller passed null
DemNone == "~None~"

\* isinstance(v, str)
IsStr(v) == v # DemNone

\* the names the notebook's links would be downloaded under
Requested ==
    CASE nb = "rslc_to_insar" -> {basename(rslc_1), basename(rslc_2)}
      [] nb = "alos_to_rslc" -> {basename(alos_data_link)}
      [] nb = "rslc_to_gcov" -> {basename(gcov_data_link)}

\* A file left in DOWNLOAD_DIR by an earlier run or by the notebook server.
StaleName(k) == IF k = 1 THEN Path(<<>>, ".ipynb_checkpoints", "")
                ELSE Path(<<>>, "old" \o ToString(k), ".zip")
StaleNames == {StaleName(k) : k \in 1..MaxStale}

\* os.listdir: the names of a directory in some order
Listings(S) == {s \in [1..Cardinality(S) -> S] :
                    \A a, b \in 1..Cardinality(S) : a # b => s[a] # s[b]}

-----------------------------------------------------------------------------
(* Configuration templates: the fields the notebooks read or write          *)

\* (mutant) a focus template without the sas_config_file key
FocusTemplateNoConfigKey ==
    [input_file_path |-> List(<<Path(<<>>, "165426740", ".h5")>>),
     dem_file        |-> Null,
     product_path    |-> Path(<<".">>, "RSLC", ""),
     scratch_path    |-> Path(<<".">>, "RSLC", ""),
     sas_output_file |-> Path(<<"RSLC">>, "165426740", ".h5"),
     gpu_enabled     |-> TRUE]

FocusTemplate ==
    [input_file_path |-> List(<<Path(<<>>, "165426740", ".h5")>>),
     dem_file        |-> Null,
     product_path    |-> Path(<<".">>, "RSLC", ""),
     scratch_path    |-> Path(<<".">>, "RSLC", ""),
     sas_output_file |-> Path(<<"RSLC">>, "165426740", ".h5"),
     sas_config_file |-> Path(<<>>, "rslc_focus_165426740", ".yaml"),
     gpu_enabled     |-> TRUE]

InsarTemplate ==
    [reference_rslc_file |-> Path(<<"slc">>, "rslc_secondary", ".h5"),
     secondary_rslc_file |-> Path(<<"slc">>, "rslc_reference", ".h5"),
     dem_file            |-> Path(<<"..", "..", "ALOS_iono", "Chile_103">>,
                                  "dem_Chile", ".tif"),
     product_path        |-> Path(<<>>, "product", ""),
     scratch_path        |-> Path(<<>>, "scratch", ""),
     sas_output_file     |-> Path(<<>>, "_product", ".h5"),
     gpu_enabled         |-> TRUE]

\* the group under runconfig.groups that holds each field of the templates
FocusGroups ==
    [input_file_path |-> "input_file_group",
     dem_file        |-> "dynamic_ancillary_file_group",
     product_path    |-> "product_path_group",
     scratch_path    |-> "product_path_group",
     sas_output_file |-> "product_path_group",
     sas_config_file |-> "product_path_group",
     gpu_enabled     |-> "worker"]

InsarGroups ==
    [reference_rslc_file |-> "input_file_group",
     secondary_rslc_file |-> "input_file_group",
     dem_file            |-> "dynamic_ancillary_file_group",
     product_path        |-> "product_path_group",
     scratch_path        |-> "product_path_group",
     sas_output_file     |-> "product_path_group",
     gpu_enabled         |-> "worker"]

\* templates/gcov.yaml
GcovTemplate ==
    [input_file_path |-> Path(<<"..", "RSLC">>, "rslc", ".h5"),
     dem_file        |-> Path(<<"..", "GUNW">>, "dem_0", ".tiff"),
     product_path    |-> Path(<<>>, "output_gcov", ""),
     scratch_path    |-> Path(<<>>, "scratch_gcov", ""),
     sas_output_file |-> Path(<<"output_gcov">>, "gcov", ".h5"),
     gpu_enabled     |-> FALSE]

\* a template that has not been loaded, a config file that does not exist
NoDoc == [missing |-> TRUE]

\* doc['runconfig']['groups'][g][k] = v: the value is replaced when group g
\* of the document has the key k, and the key is added to group g otherwise
Assign(doc, groups, g, k, v) ==
    LET key == IF k \in DOMAIN doc /\ groups[k] = g THEN k ELSE g \o "." \o k
    IN [f \in DOMAIN doc \cup {key} |-> IF f = key THEN v ELSE doc[f]]

\* yaml.dump(doc, open(path, 'w')): the file at path now holds doc
Dump(w, path, doc) ==
    [p \in DOMAIN w \cup {path} |-> IF p = path THEN doc ELSE w[p]]

\* one call of a config writer: the config path, the fields the caller
\* supplied a value for, the resolved document, the exception raised
Call(cfg, supplied, doc, error) ==
    [cfg |-> cfg, supplied |-> supplied, doc |-> doc, error |-> error]

\* what a tool finds at the config path it is given
DocAt(path) == IF path \in DOMAIN written THEN written[path] ELSE NoDoc

-----------------------------------------------------------------------------
(* External tools.  A tool is opaque: it exits 0 or not, and it leaves its  *)
(* output artifact or not.                                                  *)

Outcomes == {"ok", "silent", "fail"}
Rc(o) == IF o = "fail" THEN 1 ELSE 0
Wrote(o) == o = "ok"

Stages == {"ACQUIRE", "CONVERT", "FOCUS", "GEOCODE", "INTERFEROMETRIC",
           "STAGE_OUT"}

\* the stage a tool belongs to
StageOf(tool) ==
    CASE tool = "alos_to_nisar_l0b.py" -> "CONVERT"
      [] tool = "focus.py" -> "FOCUS"
      [] tool = "gcov.py" -> "GEOCODE"
      [] tool = "insar.py" -> "INTERFEROMETRIC"

Invocation(tool, i, input, output, cfg, o) ==
    [tool |-> tool, stage |-> StageOf(tool), idx |-> i, input |-> input,
     output |-> output, cfg |-> cfg, doc |-> DocAt(cfg), rc |-> Rc(o),
     input_present |-> input \in fs, wrote |-> Wrote(o)]

\* record that the run is now in stage s, working on input i
Enter(s, i) ==
    IF Len(entered) > 0 /\ entered[Len(entered)] = [stage |-> s, idx |-> i]
    THEN entered
    ELSE Append(entered, [stage |-> s, idx |-> i])

\* A cell raised: papermill stops the run at the first exception.
Raise(e) == pc' = "failed" /\ err' = e

-----------------------------------------------------------------------------
(* Init: the state after the parameters cell                                *)

InitRun ==
    /\ nb \in Notebooks
    /\ pc = "setup"
    /\ err = "none"
    /\ FOCUS_YML = NoDoc
    /\ INSAR_YML = NoDoc
    /\ GCOV_YML = NoDoc
    /\ downloads \in SUBSET (StaleNames \cup Requested)
    /\ fs = {join(DOWNLOAD_DIR, n) : n \in downloads}
    /\ written = << >>
    /\ extract_dirs = << >>
    /\ idx = 0
    /\ rlsc_paths = << >>
    /\ cwd = WORKING_DIR
    /\ invoked = << >>
    /\ entered = << >>
    /\ banner = FALSE
    /\ dem_s3_url \in IF nb = "rslc_to_gcov" THEN {"", DemUrl, DemNone} ELSE {""}
    /\ dem_f = Null
    /\ bundle = {}
    /\ materialized = << >>
    /\ printed = {}
    /\ calls = << >>

\* a first run: nothing in DOWNLOAD_DIR is a leftover of a cancelled run
Init == InitRun /\ partial = {}

\* a run that follows a cancelled one: some of the requested files that are
\* already in DOWNLOAD_DIR were left incomplete
InitRerun ==
    /\ InitRun
    /\ partial \in SUBSET {join(DOWNLOAD_DIR, n) : n \in downloads \cap Requested}

\* The setup cell: directories are created, the templates are loaded.
Setup ==
    /\ pc = "setup"
    /\ FOCUS_YML' = FocusTemplate
    /\ INSAR_YML' = InsarTemplate
    /\ GCOV_YML' = IF nb = "rslc_to_gcov" THEN GcovTemplate ELSE GCOV_YML
    /\ pc' = "acquire"
    /\ UNCHANGED <<nb, err, downloads, fs, written, extract_dirs, idx,
                   rlsc_paths, cwd, invoked, entered, banner, dem_s3_url, dem_f, bundle,
                   materialized,
                   printed, partial, calls>>

-----------------------------------------------------------------------------
(* rslc_to_insar *)

\* the value download_alos_data returns when authentication fails: the except
\* branch prints and falls off the end of the function
None == <<Null>>

\* extract_dirs.append(os.path.abspath(splitext[0])) for each listed file,
\* evaluated in EXTRACT_DIR
ExtractDirsOf(files) ==
    [k \in 1..Len(files) |-> abspath(splitext0(files[k]), EXTRACT_DIR)]

\* !unzip -o {zip_f}, run in EXTRACT_DIR: a zip archive is extracted to a
\* directory named after it; any other file (a checkpoint directory of the
\* notebook server) leaves nothing
Unzipped(names) ==
    {abspath(splitext0(n), EXTRACT_DIR) : n \in {m \in names : m.ext = ".zip"}}

\* the names in DOWNLOAD_DIR whose file is incomplete
Incomplete(names) == {n \in names : join(DOWNLOAD_DIR, n) \in partial}

\* (mutant) the except branch returns an empty list
download_alos_data_empty ==
    /\ pc = "acquire"
    /\ nb = "rslc_to_insar"
    /\ entered' = Enter("ACQUIRE", 0)
    /\ \/ \* auth_with_creds raises ASFAuthenticationError: caught, printed
          /\ extract_dirs' = << >>
          /\ printed' = printed \cup {"Auth failed"}
          /\ pc' = "focus_loop"
          /\ UNCHANGED <<downloads, fs, err, partial>>
       \/ \* download_urls raises: not caught by the function
          /\ Raise("DownloadError")
          /\ UNCHANGED <<downloads, fs, extract_dirs, printed, partial>>
       \/ \* both urls are fetched; a file already there is skipped, so an
          \* incomplete one stays as it is, and unzip salvages a directory
          \* from it or nothing
          /\ downloads' = downloads \cup {basename(rslc_1), basename(rslc_2)}
          /\ \E salvaged \in SUBSET Incomplete(downloads) :
                /\ fs' = fs \cup {join(DOWNLOAD_DIR, n) : n \in downloads'}
                            \cup Unzipped((downloads' \ Incomplete(downloads))
                                          \cup salvaged)
                /\ partial' = partial \cup Unzipped(salvaged)
          /\ \E files \in Listings(downloads') :
                extract_dirs' = ExtractDirsOf(files)
          /\ pc' = "focus_loop"
          /\ UNCHANGED <<err, printed>>
    /\ UNCHANGED <<nb, FOCUS_YML, INSAR_YML, GCOV_YML, written, idx,
                   rlsc_paths, cwd, invoked, banner, dem_s3_url, dem_f, bundle,
                   materialized,
                   calls>>

\* (mutant) the function returns without changing back
download_alos_data_nochdir ==
    /\ pc = "acquire"
    /\ nb = "rslc_to_insar"
    /\ entered' = Enter("ACQUIRE", 0)
    /\ \/ \* auth_with_creds raises ASFAuthenticationError: caught, printed
          /\ extract_dirs' = None
          /\ printed' = printed \cup {"Auth failed"}
          /\ pc' = "focus_loop"
          /\ UNCHANGED <<downloads, fs, err, partial, cwd>>
       \/ \* download_urls raises: not caught by the function
          /\ Raise("DownloadError")
          /\ UNCHANGED <<downloads, fs, extract_dirs, printed, partial, cwd>>
       \/ \* both urls are fetched; a file already there is skipped, so an
          \* incomplete one stays as it is, and unzip salvages a directory
          \* from it or nothing
          /\ downloads' = downloads \cup {basename(rslc_1), basename(rslc_2)}
          /\ \E salvaged \in SUBSET Incomplete(downloads) :
                /\ fs' = fs \cup {join(DOWNLOAD_DIR, n) : n \in downloads'}
                            \cup Unzipped((downloads' \ Incomplete(downloads))
                                          \cup salvaged)
                /\ partial' = partial \cup Unzipped(salvaged)
          /\ \E files \in Listings(downloads') :
                extract_dirs' = ExtractDirsOf(files)
          /\ \* os.chdir(EXTRACT_DIR) ... os.chdir(current_dir): unzip does
             \* not raise, so the second chdir is always reached
             LET current_dir == cwd IN cwd' = EXTRACT_DIR
          /\ pc' = "focus_loop"
          /\ UNCHANGED <<err, printed>>
    /\ UNCHANGED <<nb, FOCUS_YML, INSAR_YML, GCOV_YML, written, idx,
                   rlsc_paths, invoked, banner, dem_s3_url, dem_f, bundle,
                   materialized,
                   calls>>

download_alos_data ==
    /\ pc = "acquire"
    /\ nb = "rslc_to_insar"
    /\ entered' = Enter("ACQUIRE", 0)
    /\ \/ \* auth_with_creds raises ASFAuthenticationError: caught, printed
          /\ extract_dirs' = None
          /\ printed' = printed \cup {"Auth failed"}
          /\ pc' = "focus_loop"
          /\ UNCHANGED <<downloads, fs, err, partial, cwd>>
       \/ \* download_urls raises: not caught by the function
          /\ Raise("DownloadError")
          /\ UNCHANGED <<downloads, fs, extract_dirs, printed, partial, cwd>>
       \/ \* both urls are fetched; a file already there is skipped, so an
          \* incomplete one stays as it is, and unzip salvages a directory
          \* from it or nothing
          /\ downloads' = downloads \cup {basename(rslc_1), basename(rslc_2)}
          /\ \E salvaged \in SUBSET Incomplete(downloads) :
                /\ fs' = fs \cup {join(DOWNLOAD_DIR, n) : n \in downloads'}
                            \cup Unzipped((downloads' \ Incomplete(downloads))
                                          \cup salvaged)
                /\ partial' = partial \cup Unzipped(salvaged)
          /\ \E files \in Listings(downloads') :
                extract_dirs' = ExtractDirsOf(files)
          /\ \* os.chdir(EXTRACT_DIR) ... os.chdir(current_dir): unzip does
             \* not raise, so the second chdir is always reached
             LET current_dir == cwd IN cwd' = current_dir
          /\ pc' = "focus_loop"
          /\ UNCHANGED <<err, printed>>
    /\ UNCHANGED <<nb, FOCUS_YML, INSAR_YML, GCOV_YML, written, idx,
                   rlsc_paths, invoked, banner, dem_s3_url, dem_f, bundle,
                   materialized,
                   calls>>

\* (mutant) one target file for every index
TargetPathShared(i) == join(OUTPUT_DIR \o <<"output">>, Path(<<>>, "output", ".h5"))

\* the focus loop's paths for enumerate() index i
TargetPath(i) == join(OUTPUT_DIR \o <<"output">>, Path(<<>>, ToString(i), ".h5"))
YmlPath(i) == join(OUTPUT_DIR, Path(<<>>, ToString(i), ".yaml"))

\* the fields write_focus_config of rslc_to_insar assigns
FocusOverrides == {"input_file_path", "sas_output_file", "sas_config_file"}

\* (mutant) the template is updated but never dumped to yml_path
write_focus_config_nodump(target_path, yml_path) ==
    /\ FOCUS_YML' = [FOCUS_YML EXCEPT
                        !.input_file_path = List(<<target_path>>),
                        !.sas_output_file = join(<<"RSLC">>, basename(target_path)),
                        !.sas_config_file = yml_path]
    /\ written' = written
    /\ materialized' = Append(materialized,
            Call(yml_path, FocusOverrides, FOCUS_YML', "none"))

\* (mutant) the output path is stored under product_path
write_focus_config_wrongkey(target_path, yml_path) ==
    /\ FOCUS_YML' = [FOCUS_YML EXCEPT
                        !.input_file_path = List(<<target_path>>),
                        !.product_path = join(<<"RSLC">>, basename(target_path)),
                        !.sas_config_file = yml_path]
    /\ written' = Dump(written, yml_path, FOCUS_YML')
    /\ materialized' = Append(materialized,
            Call(yml_path, FocusOverrides, FOCUS_YML', "none"))

\* (mutant) the input path is stored as a scalar, not as a one-element list
write_focus_config_scalar(target_path, yml_path) ==
    /\ FOCUS_YML' = [FOCUS_YML EXCEPT
                        !.input_file_path = target_path,
                        !.sas_output_file = join(<<"RSLC">>, basename(target_path)),
                        !.sas_config_file = yml_path]
    /\ written' = Dump(written, yml_path, FOCUS_YML')
    /\ materialized' = Append(materialized,
            Call(yml_path, FocusOverrides, FOCUS_YML', "none"))

\* (mutant) the output path keeps the directory of the input path
write_focus_config_fullpath(target_path, yml_path) ==
    /\ FOCUS_YML' = [FOCUS_YML EXCEPT
                        !.input_file_path = List(<<target_path>>),
                        !.sas_output_file = join(<<"RSLC">>, target_path),
                        !.sas_config_file = yml_path]
    /\ written' = Dump(written, yml_path, FOCUS_YML')
    /\ materialized' = Append(materialized,
            Call(yml_path, FocusOverrides, FOCUS_YML', "none"))

\* write_focus_config(target_path, yml_path) of rslc_to_insar
write_focus_config(target_path, yml_path) ==
    /\ FOCUS_YML' =
          Assign(Assign(Assign(FOCUS_YML, FocusGroups,
                    "input_file_group", "input_file_path", List(<<target_path>>)),
                    FocusGroups, "product_path_group", "sas_output_file",
                    join(<<"RSLC">>, basename(target_path))),
                    FocusGroups, "product_path_group", "sas_config_file", yml_path)
    /\ written' = Dump(written, yml_path, FOCUS_YML')
    /\ materialized' = Append(materialized,
            Call(yml_path, FocusOverrides, FOCUS_YML', "none"))

\* (mutant) the loop index does not advance
NextIndexStuck(i) == i

\* enumerate(): the index of the next iteration
NextIndex(i) == i + 1

\* the head of `for i, d in enumerate(extract_dirs)` and the body up to the
\* first shell line
FocusLoop ==
    /\ pc = "focus_loop"
    /\ nb = "rslc_to_insar"
    /\ IF extract_dirs = None
       THEN \* enumerate(None)
            /\ Raise("TypeError")
            /\ UNCHANGED <<FOCUS_YML, written, rlsc_paths, entered, materialized>>
       ELSE IF idx < Len(extract_dirs)
       THEN /\ rlsc_paths' = Append(rlsc_paths, TargetPath(idx))
            /\ write_focus_config(TargetPath(idx), YmlPath(idx))
            /\ entered' = Enter("CONVERT", idx)
            /\ pc' = "convert"
            /\ UNCHANGED err
       ELSE /\ pc' = "stage_dem"
            /\ UNCHANGED <<FOCUS_YML, written, rlsc_paths, entered, err,
                           materialized>>
    /\ UNCHANGED <<nb, INSAR_YML, GCOV_YML, downloads, fs, extract_dirs, idx,
                   cwd, invoked, banner, dem_s3_url, dem_f, bundle,
                   printed, partial, calls>>

\* !python .../alos_to_nisar_l0b.py -i {d} -o {target_path}
InsarConvert ==
    /\ pc = "convert"
    /\ nb = "rslc_to_insar"
    /\ \E o \in Outcomes :
         /\ invoked' = Append(invoked,
                Invocation("alos_to_nisar_l0b.py", idx, extract_dirs[idx + 1],
                           TargetPath(idx), Null, o))
         /\ fs' = IF Wrote(o) THEN fs \cup {TargetPath(idx)} ELSE fs
    /\ pc' = "focus"
    /\ UNCHANGED <<nb, err, FOCUS_YML, INSAR_YML, GCOV_YML, downloads, written,
                   extract_dirs, idx, rlsc_paths, cwd, entered, banner,
                   dem_s3_url, dem_f, bundle,
                   materialized,
                   printed, partial, calls>>

\* where focus.py writes: sas_output_file of the config it is given, relative
\* to the working directory
FocusOutput(cfg) ==
    IF DocAt(cfg) = NoDoc THEN Null
    ELSE abspath(DocAt(cfg).sas_output_file, cwd)

\* (mutant) focus.py is run again for the same input when it exits non-zero
InsarFocusRetry ==
    /\ pc = "focus"
    /\ nb = "rslc_to_insar"
    /\ entered' = Enter("FOCUS", idx)
    /\ \E o \in Outcomes :
         LET out == FocusOutput(YmlPath(idx))
             again == Rc(o) # 0 /\ Len(invoked) < 6 IN
         /\ invoked' = Append(invoked,
                Invocation("focus.py", idx, TargetPath(idx), out,
                           YmlPath(idx), o))
         /\ fs' = IF Wrote(o) THEN fs \cup {out} ELSE fs
         /\ idx' = IF again THEN idx ELSE NextIndex(idx)
         /\ pc' = IF again THEN "focus"
                  ELSE IF idx' < Len(extract_dirs) THEN "focus_loop"
                  ELSE "stage_dem"
    /\ UNCHANGED <<nb, err, FOCUS_YML, INSAR_YML, GCOV_YML, downloads, written,
                   extract_dirs, rlsc_paths, cwd, banner, dem_s3_url, dem_f, bundle,
                   materialized,
                   printed, partial, calls>>

\* !python .../focus.py {yml_path} --no-log, the last line of the loop body:
\* the loop goes on to the next index, or ends when the list is exhausted
InsarFocus ==
    /\ pc = "focus"
    /\ nb = "rslc_to_insar"
    /\ entered' = Enter("FOCUS", idx)
    /\ \E o \in Outcomes :
         LET out == FocusOutput(YmlPath(idx)) IN
         /\ invoked' = Append(invoked,
                Invocation("focus.py", idx, TargetPath(idx), out,
                           YmlPath(idx), o))
         /\ fs' = IF Wrote(o) THEN fs \cup {out} ELSE fs
    /\ idx' = NextIndex(idx)
    /\ pc' = IF idx' < Len(extract_dirs) THEN "focus_loop" ELSE "stage_dem"
    /\ UNCHANGED <<nb, err, FOCUS_YML, INSAR_YML, GCOV_YML, downloads, written,
                   extract_dirs, rlsc_paths, cwd, banner, dem_s3_url, dem_f, bundle,
                   materialized,
                   printed, partial, calls>>

\* !python .../stage_dem.py -b -123 35 -121 38 leaves dem_0.tiff in the
\* working directory or not; nothing reads it, because write_insar_config is
\* then called with three arguments although it takes two: TypeError.
\* insar.py and the upload cell are never reached.
InsarStageDemAndConfig ==
    /\ pc = "stage_dem"
    /\ nb = "rslc_to_insar"
    /\ entered' = Enter("INTERFEROMETRIC", 0)
    /\ Raise("TypeError")
    /\ UNCHANGED <<nb, FOCUS_YML, INSAR_YML, GCOV_YML, downloads, fs, written,
                   extract_dirs, idx, rlsc_paths, cwd, invoked, banner,
                   dem_s3_url, dem_f, bundle,
                   materialized,
                   printed, partial, calls>>

-----------------------------------------------------------------------------
(* alos_to_rslc and rslc_to_gcov: the paths of the run cell                 *)

\* f'{name}{suffix}{ext}' in directory d
Named(d, name, suffix, ext) == Path(d, name.stem \o name.ext \o suffix, ext)

\* isce3_config.download_alos_s3_data returns the directory the archive was
\* extracted to
AlosExtractDir == join(EXTRACT_DIR, splitext0(basename(alos_data_link)))

target_path ==
    IF nb = "alos_to_rslc"
    THEN Named(OUTPUT_DIR, basename(AlosExtractDir), "", ".h5")
    ELSE join(DOWNLOAD_DIR, basename(gcov_data_link))

output_f ==
    IF nb = "alos_to_rslc"
    THEN join(PRODUCT_DIR, basename(target_path))
    ELSE Named(PRODUCT_DIR, basename(splitext0(target_path)), "_GCOV", ".h5")

\* (mutant) the config file is numbered by the tools run so far
yml_path_numbered ==
    Path(OUTPUT_DIR, "config" \o ToString(Len(invoked)), ".yaml")

yml_path ==
    IF nb = "alos_to_rslc"
    THEN Named(OUTPUT_DIR, basename(AlosExtractDir), "", ".yaml")
    ELSE join(OUTPUT_DIR, Path(<<>>, "gcov_final", ".yaml"))

DemTiff == join(PRODUCT_DIR, Path(<<>>, "dem_0", ".tiff"))

\* isce3_config.h5parse.get_bounds(path) opens the file: it raises when the
\* file is not there
get_bounds_raises(path) == path \notin fs

\* the fields a resolved configuration must not leave null
Required == {"input_file_path", "dem_file", "sas_output_file"}
MissingFields(doc) ==
    {f \in Required \cap DOMAIN doc : doc[f] = Null \/ doc[f] = List(<<Null>>)}

\* the overrides a caller passed that are not null
Supplied(target, dem, cfg, output) ==
    {f \in {"input_file_path", "dem_file", "sas_config_file", "sas_output_file"} :
        CASE f = "input_file_path" -> target # Null
          [] f = "dem_file" -> dem # Null
          [] f = "sas_config_file" -> cfg # Null
          [] f = "sas_output_file" -> output # Null}

\* (mutant) the DEM path is not merged into the document
isce3_focus_config_nodem(yml, target, dem, cfg, gpu, output) ==
    [yml EXCEPT !.input_file_path = List(<<target>>),
                !.sas_output_file = output, !.sas_config_file = cfg,
                !.gpu_enabled = gpu]

\* isce3_config.write_focus_config(template, target, dem, yml, gpu, output):
\* the resolved document
isce3_focus_config(yml, target, dem, cfg, gpu, output) ==
    [yml EXCEPT !.input_file_path = List(<<target>>), !.dem_file = dem,
                !.sas_output_file = output, !.sas_config_file = cfg,
                !.gpu_enabled = gpu]

\* isce3_config.write_gcov_config(template, target, dem, yml, gpu, output):
\* the resolved document
isce3_gcov_config(yml, target, dem, cfg, gpu, output) ==
    [yml EXCEPT !.input_file_path = target, !.dem_file = dem,
                !.sas_output_file = output, !.gpu_enabled = gpu]

\* the config writers of isce3_config: validate, then persist
isce3_write(doc, cfg, supplied) ==
    IF MissingFields(doc) # {}
    THEN /\ Raise("ConfigValidationError")
         /\ materialized' = Append(materialized,
                Call(cfg, supplied, doc, "ConfigValidationError"))
         /\ UNCHANGED written
    ELSE /\ written' = Dump(written, cfg, doc)
         /\ materialized' = Append(materialized, Call(cfg, supplied, doc, "none"))
         /\ UNCHANGED err

-----------------------------------------------------------------------------
(* alos_to_rslc *)

AlosDownload ==
    /\ pc = "acquire"
    /\ nb = "alos_to_rslc"
    /\ entered' = Enter("ACQUIRE", 0)
    /\ \/ /\ Raise("DownloadError")
          /\ UNCHANGED <<downloads, fs, dem_f, partial>>
       \/ \* the archive is fetched again and extracted
          /\ downloads' = downloads \cup {basename(alos_data_link)}
          /\ fs' = fs \cup {join(DOWNLOAD_DIR, basename(alos_data_link)),
                            AlosExtractDir}
          /\ partial' = partial \ {join(DOWNLOAD_DIR, basename(alos_data_link))}
          /\ dem_f' = DemTiff
          /\ pc' = "convert"
          /\ UNCHANGED err
    /\ UNCHANGED printed
    /\ UNCHANGED <<nb, FOCUS_YML, INSAR_YML, GCOV_YML, written, extract_dirs,
                   idx, rlsc_paths, cwd, invoked, banner, dem_s3_url, bundle,
                   materialized,
                   calls>>

\* !{_cmd_alos_to_l0b}
AlosConvert ==
    /\ pc = "convert"
    /\ nb = "alos_to_rslc"
    /\ entered' = Enter("CONVERT", 0)
    /\ \E o \in Outcomes :
         /\ invoked' = Append(invoked,
                Invocation("alos_to_nisar_l0b.py", 0, AlosExtractDir,
                           target_path, Null, o))
         /\ fs' = IF Wrote(o) THEN fs \cup {target_path} ELSE fs
    /\ pc' = "bounds"
    /\ UNCHANGED <<nb, err, FOCUS_YML, INSAR_YML, GCOV_YML, downloads, written,
                   extract_dirs, idx, rlsc_paths, cwd, banner, dem_s3_url,
                   dem_f, bundle,
                   materialized,
                   printed, partial, calls>>

\* bbox = get_bounds(target_path), then !{_cmd_stage_dem}
AlosBoundsAndDem ==
    /\ pc = "bounds"
    /\ nb = "alos_to_rslc"
    /\ IF get_bounds_raises(target_path)
       THEN Raise("OSError") /\ UNCHANGED fs
       ELSE /\ \E staged \in BOOLEAN :
                 fs' = IF staged THEN fs \cup {DemTiff} ELSE fs
            /\ pc' = "focus_cfg"
            /\ UNCHANGED err
    /\ UNCHANGED <<nb, FOCUS_YML, INSAR_YML, GCOV_YML, downloads, written,
                   extract_dirs, idx, rlsc_paths, cwd, invoked, entered,
                   banner, dem_s3_url, dem_f, bundle,
                   materialized,
                   printed, partial, calls>>

\* isce3_config.write_focus_config(FOCUS_YML, target_path, dem_f, yml_path,
\*                                 gpu_enabled, output_f)
AlosWriteFocusConfig ==
    /\ pc = "focus_cfg"
    /\ nb = "alos_to_rslc"
    /\ entered' = Enter("FOCUS", 0)
    /\ isce3_write(isce3_focus_config(FOCUS_YML, target_path, dem_f, yml_path,
                                      TRUE, output_f), yml_path,
                   Supplied(target_path, dem_f, yml_path, output_f))
    /\ pc' = IF err' = "none" THEN "focus" ELSE "failed"
    /\ UNCHANGED <<nb, FOCUS_YML, INSAR_YML, GCOV_YML, downloads, fs,
                   extract_dirs, idx, rlsc_paths, cwd, invoked, banner,
                   dem_s3_url, dem_f, bundle,
                   printed, partial, calls>>

\* !{_bash_cmd_focus}, then the SUCCESS banner
AlosFocus ==
    /\ pc = "focus"
    /\ nb = "alos_to_rslc"
    /\ \E o \in Outcomes :
         /\ invoked' = Append(invoked,
                Invocation("focus.py", 0, target_path, output_f, yml_path, o))
         /\ fs' = IF Wrote(o) THEN fs \cup {output_f} ELSE fs
    /\ banner' = TRUE
    /\ pc' = "stage_out"
    /\ UNCHANGED <<nb, err, FOCUS_YML, INSAR_YML, GCOV_YML, downloads, written,
                   extract_dirs, idx, rlsc_paths, cwd, entered, dem_s3_url,
                   dem_f, bundle,
                   materialized,
                   printed, partial, calls>>

-----------------------------------------------------------------------------
(* rslc_to_gcov *)

\* (mutant) the file is fetched whether or not it is already there
GcovDownloadAlways ==
    /\ pc = "acquire"
    /\ nb = "rslc_to_gcov"
    /\ entered' = Enter("ACQUIRE", 0)
    /\ \/ /\ printed' = printed \cup {"Downloading"}
          /\ downloads' = downloads \cup {basename(gcov_data_link)}
          /\ fs' = fs \cup {target_path}
          /\ pc' = "dem"
          /\ UNCHANGED err
       \/ /\ target_path \notin fs
          /\ printed' = printed \cup {"Downloading"}
          /\ Raise("DownloadError")
          /\ UNCHANGED <<downloads, fs>>
       \/ /\ target_path \in fs
          /\ printed' = printed \cup {"already exists, skipping download"}
          /\ pc' = "dem"
          /\ UNCHANGED <<downloads, fs, err>>
    /\ UNCHANGED <<nb, FOCUS_YML, INSAR_YML, GCOV_YML, written, extract_dirs,
                   idx, rlsc_paths, cwd, invoked, banner, dem_s3_url, dem_f,
                   bundle, materialized, partial, calls>>

\* the download step: skipped when a file of that name is already there
GcovDownload ==
    /\ pc = "acquire"
    /\ nb = "rslc_to_gcov"
    /\ entered' = Enter("ACQUIRE", 0)
    /\ \/ /\ target_path \notin fs
          /\ printed' = printed \cup {"Downloading"}
          /\ downloads' = downloads \cup {basename(gcov_data_link)}
          /\ fs' = fs \cup {target_path}
          /\ pc' = "dem"
          /\ UNCHANGED err
       \/ /\ target_path \notin fs
          /\ printed' = printed \cup {"Downloading"}
          /\ Raise("DownloadError")
          /\ UNCHANGED <<downloads, fs>>
       \/ /\ target_path \in fs
          /\ printed' = printed \cup {"already exists, skipping download"}
          /\ pc' = "dem"
          /\ UNCHANGED <<downloads, fs, err>>
    /\ UNCHANGED <<nb, FOCUS_YML, INSAR_YML, GCOV_YML, written, extract_dirs,
                   idx, rlsc_paths, cwd, invoked, banner, dem_s3_url, dem_f,
                   bundle, materialized, partial, calls>>

\* isce3_config.download_dem(dem_s3_url, DOWNLOAD_DIR) returns the local path
DownloadedDem == join(DOWNLOAD_DIR, Path(<<>>, "dem", ".tiff"))

\* (mutant) the else branch does not assign dem_f
GcovDemUnset ==
    /\ pc = "dem"
    /\ nb = "rslc_to_gcov"
    /\ \/ /\ IsStr(dem_s3_url) /\ dem_s3_url # ""
          /\ dem_f' = DownloadedDem
          /\ fs' = fs \cup {DownloadedDem}
          /\ pc' = "gcov_cfg"
          /\ UNCHANGED <<err, printed>>
       \/ /\ IsStr(dem_s3_url) /\ dem_s3_url # ""
          /\ Raise("DownloadError")
          /\ UNCHANGED <<dem_f, fs, printed>>
       \/ /\ ~ (IsStr(dem_s3_url) /\ dem_s3_url # "")
          /\ printed' = printed \cup {"downloading DEM via stage_dem.py instead"}
          /\ dem_f' = dem_f
          /\ IF get_bounds_raises(target_path)
             THEN Raise("OSError") /\ UNCHANGED fs
             ELSE /\ \E staged \in BOOLEAN :
                       fs' = IF staged THEN fs \cup {DemTiff} ELSE fs
                  /\ pc' = "gcov_cfg"
                  /\ UNCHANGED err
    /\ UNCHANGED <<nb, FOCUS_YML, INSAR_YML, GCOV_YML, downloads, written,
                   extract_dirs, idx, rlsc_paths, cwd, invoked, entered,
                   banner, dem_s3_url, bundle,
                   materialized,
                   partial, calls>>

\* the DEM: from dem_s3_url when it is a non-empty string, else stage_dem.py
GcovDem ==
    /\ pc = "dem"
    /\ nb = "rslc_to_gcov"
    /\ \/ /\ IsStr(dem_s3_url) /\ dem_s3_url # ""
          /\ dem_f' = DownloadedDem
          /\ fs' = fs \cup {DownloadedDem}
          /\ pc' = "gcov_cfg"
          /\ UNCHANGED <<err, printed>>
       \/ /\ IsStr(dem_s3_url) /\ dem_s3_url # ""
          /\ Raise("DownloadError")
          /\ UNCHANGED <<dem_f, fs, printed>>
       \/ /\ ~ (IsStr(dem_s3_url) /\ dem_s3_url # "")
          /\ printed' = printed \cup {"downloading DEM via stage_dem.py instead"}
          /\ dem_f' = DemTiff
          /\ IF get_bounds_raises(target_path)
             THEN Raise("OSError") /\ UNCHANGED fs
             ELSE /\ \E staged \in BOOLEAN :
                       fs' = IF staged THEN fs \cup {DemTiff} ELSE fs
                  /\ pc' = "gcov_cfg"
                  /\ UNCHANGED err
    /\ UNCHANGED <<nb, FOCUS_YML, INSAR_YML, GCOV_YML, downloads, written,
                   extract_dirs, idx, rlsc_paths, cwd, invoked, entered,
                   banner, dem_s3_url, bundle,
                   materialized,
                   partial, calls>>

\* isce3_config.write_gcov_config(GCOV_YML, target_path, dem_f, yml_path,
\*                                gpu_enabled, output_f)
GcovWriteConfig ==
    /\ pc = "gcov_cfg"
    /\ nb = "rslc_to_gcov"
    /\ entered' = Enter("GEOCODE", 0)
    /\ isce3_write(isce3_gcov_config(GCOV_YML, target_path, dem_f, yml_path,
                                     TRUE, output_f), yml_path,
                   Supplied(target_path, dem_f, yml_path, output_f))
    /\ pc' = IF err' = "none" THEN "gcov" ELSE "failed"
    /\ UNCHANGED <<nb, FOCUS_YML, INSAR_YML, GCOV_YML, downloads, fs,
                   extract_dirs, idx, rlsc_paths, cwd, invoked, banner,
                   dem_s3_url, dem_f, bundle,
                   printed, partial, calls>>

\* !mamba run -n isce3_src python .../gcov.py {yml_path} --no-log, then the
\* SUCCESS banner
GcovTool ==
    /\ pc = "gcov"
    /\ nb = "rslc_to_gcov"
    /\ \E o \in Outcomes :
         /\ invoked' = Append(invoked,
                Invocation("gcov.py", 0, target_path, output_f, yml_path, o))
         /\ fs' = IF Wrote(o) THEN fs \cup {output_f} ELSE fs
    /\ banner' = TRUE
    /\ pc' = "stage_out"
    /\ UNCHANGED <<nb, err, FOCUS_YML, INSAR_YML, GCOV_YML, downloads, written,
                   extract_dirs, idx, rlsc_paths, cwd, entered, dem_s3_url,
                   dem_f, bundle,
                   materialized,
                   printed, partial, calls>>

-----------------------------------------------------------------------------
(* The stage-out cell of alos_to_rslc and rslc_to_gcov                      *)

\* the fixed parts of the stage-out names
RSLC_PREFIX == <<"N", "I", "S", "A", "R", "_", "L", "1", "_", "P", "R", "_", "R", "S", "L", "C", "_", "0", "0", "0", "_", "0", "0", "0", "_", "Z", "_", "0", "0", "0", "_", "0", "0", "0", "0", "_">>
GCOV_PREFIX == <<"N", "I", "S", "A", "R", "_", "L", "2", "_", "P", "R", "_", "G", "C", "O", "V", "_", "0", "0", "0", "_", "0", "0", "0", "_", "Z", "_", "0", "0", "0", "_", "0", "0", "0", "0", "_">>
NAME_SUFFIX == <<"_", "0", "A", "1", "B", "2", "C", "_", "A", "_", "F", "_", "Z", "_", "0", "0", "0">>

\* a text as the sequence of its characters, and the string it spells
RECURSIVE Str(_)
Str(chars) == IF chars = << >> THEN "" ELSE Head(chars) \o Str(Tail(chars))

\* isce3_config.RSLC_FORMAT / GCOV_FORMAT .format(polarization=, timestamp=)
RSLC_FORMAT(pol, ts) ==
    RSLC_PREFIX \o pol \o <<"_", "Z", "_">> \o ts \o <<"_">> \o ts \o NAME_SUFFIX
GCOV_FORMAT(pol, ts) ==
    GCOV_PREFIX \o pol \o <<"_", "Z", "_">> \o ts \o <<"_">> \o ts \o NAME_SUFFIX

polarization == <<"H", "H">>

\* (mutant) the polarization is passed as it is
PolarizationFieldBare(pol) == pol

\* f'{polarization}00'
PolarizationField(pol) == pol \o <<"0", "0">>

\* FORMAT.format(polarization=f'{polarization}00', timestamp=timestamp)
StageOutName(product, pol, ts) ==
    IF product = "RSLC" THEN RSLC_FORMAT(PolarizationField(pol), ts)
    ELSE GCOV_FORMAT(PolarizationField(pol), ts)

\* the product a notebook stages out
Product == IF nb = "alos_to_rslc" THEN "RSLC" ELSE "GCOV"

\* the names the two stage-out cells build from the timestamp parameter
StageOutNames ==
    [product \in {"RSLC", "GCOV"} |->
        Str(StageOutName(product, polarization, timestamp))]

regex_name == StageOutNames[Product]
auto_output_dir == WORKING_DIR \o <<regex_name>>

\* files of the working directory the three cp lines may match
WorkFiles == {Path(<<>>, "notebook-output", ".ipynb"),
              Path(<<>>, "_stdout", ".txt"),
              Path(<<>>, "_context", ".json")}

MetJson == Path(auto_output_dir, regex_name, ".met.json")
DatasetJson == Path(auto_output_dir, regex_name, ".dataset.json")

\* (mutant) cp instead of mv: src stays where it is
Copied(S, src) ==
    IF src \in S THEN S \cup {join(auto_output_dir, basename(src))}
    ELSE S

\* (mutant) the destination appears even when src does not exist
MovedAlways(S, src) ==
    (S \ {src}) \cup {join(auto_output_dir, basename(src))}

\* !mv {src} {auto_output_dir}: the set with src moved, when src is in it
Moved(S, src) ==
    IF src \in S THEN (S \ {src}) \cup {join(auto_output_dir, basename(src))}
    ELSE S

\* (mutant) the stage-out cell is run again after it has finished
StageOutAgain ==
    /\ pc = "stage_out"
    /\ nb \in {"alos_to_rslc", "rslc_to_gcov"}
    /\ entered' = Enter("STAGE_OUT", 0)
    /\ \E copied \in SUBSET WorkFiles :
         bundle' = {Path(WORKING_DIR, regex_name, "")}
                   \cup {join(auto_output_dir, f) : f \in copied}
                   \cup (Moved(DOMAIN written, yml_path) \ DOMAIN written)
                   \cup (Moved(fs, output_f) \ fs)
                   \cup {MetJson, DatasetJson}
    /\ fs' = Moved(fs, output_f)
    /\ written' = [p \in Moved(DOMAIN written, yml_path) |->
                      IF p \in DOMAIN written THEN written[p]
                      ELSE written[yml_path]]
    /\ pc' = "stage_out"
    /\ UNCHANGED <<nb, err, FOCUS_YML, INSAR_YML, GCOV_YML, downloads,
                   extract_dirs, idx, rlsc_paths, cwd, invoked, banner,
                   dem_s3_url, dem_f,
                   materialized,
                   printed, partial, calls>>

StageOut ==
    /\ pc = "stage_out"
    /\ nb \in {"alos_to_rslc", "rslc_to_gcov"}
    /\ entered' = Enter("STAGE_OUT", 0)
    /\ \E copied \in SUBSET WorkFiles :
         bundle' = {Path(WORKING_DIR, regex_name, "")}
                   \cup {join(auto_output_dir, f) : f \in copied}
                   \cup (Moved(DOMAIN written, yml_path) \ DOMAIN written)
                   \cup (Moved(fs, output_f) \ fs)
                   \cup {MetJson, DatasetJson}
    /\ fs' = Moved(fs, output_f)
    /\ written' = [p \in Moved(DOMAIN written, yml_path) |->
                      IF p \in DOMAIN written THEN written[p]
                      ELSE written[yml_path]]
    /\ pc' = "done"
    /\ UNCHANGED <<nb, err, FOCUS_YML, INSAR_YML, GCOV_YML, downloads,
                   extract_dirs, idx, rlsc_paths, cwd, invoked, banner,
                   dem_s3_url, dem_f,
                   materialized,
                   printed, partial, calls>>

-----------------------------------------------------------------------------
Next ==
    \/ Setup
    \/ download_alos_data
    \/ FocusLoop
    \/ InsarConvert
    \/ InsarFocus
    \/ InsarStageDemAndConfig
    \/ AlosDownload
    \/ AlosConvert
    \/ AlosBoundsAndDem
    \/ AlosWriteFocusConfig
    \/ AlosFocus
    \/ GcovDownload
    \/ GcovDem
    \/ GcovWriteConfig
    \/ GcovTool
    \/ StageOut

Spec == Init /\ [][Next]_vars

\* the same notebooks, started after a cancelled run
SpecRerun == InitRerun /\ [][Next]_vars

\* a first run whose DOWNLOAD_DIR holds at most MaxFiles entries once the
\* requested files are there
InitLive == Init /\ Cardinality(downloads \cup Requested) <= MaxFiles

\* the notebook is executed cell by cell and every shell line, download and
\* library call returns: a step that can be taken is eventually taken
SpecLive == InitLive /\ [][Next]_vars /\ WF_vars(Next)

-----------------------------------------------------------------------------
(* Properties of the stage order and of failure handling                    *)

\* the position of a stage in ACQUIRE -> CONVERT -> FOCUS ->
\* {GEOCODE | INTERFEROMETRIC} -> STAGE_OUT
Rank(s) ==
    CASE s = "ACQUIRE" -> 1
      [] s = "CONVERT" -> 2
      [] s = "FOCUS" -> 3
      [] s \in {"GEOCODE", "INTERFEROMETRIC"} -> 4
      [] s = "STAGE_OUT" -> 5

\* a and b are steps of the per-input loop, b working on a later input
LaterInput(a, b) ==
    /\ a.stage \in {"CONVERT", "FOCUS"}
    /\ b.stage \in {"CONVERT", "FOCUS"}
    /\ a.idx < b.idx

\* the tools that are handed a configuration file
ConfigDriven == {"focus.py", "gcov.py", "insar.py"}

C2_NonZeroExitFails ==
    \A k \in 1..Len(invoked) :
        invoked[k].rc # 0 => /\ k = Len(invoked)
                             /\ ~banner
                             /\ bundle = {}
                             /\ pc # "done"

\* C3: a tool is never invoked on an input artifact that does not exist.
C3_InputPresent ==
    \A k \in 1..Len(invoked) : invoked[k].input_present

\* C4: a stage-out bundle exists only if every tool of the run exited zero
\* and left its output artifact.
C4_BundleOnlyOnSuccess ==
    bundle # {} => \A k \in 1..Len(invoked) :
                       invoked[k].rc = 0 /\ invoked[k].wrote

\* C5: within a run a tool is invoked at most once per input artifact.
C5_NoRetry ==
    \A b \in 1..Len(invoked) : \A a \in 1..(b - 1) :
        ~ (invoked[a].tool = invoked[b].tool
            /\ invoked[a].input = invoked[b].input)

\* C5 witness: a tool exited non-zero and the run went on to later
\* invocations
C5_Witness ==
    \E k \in 1..Len(invoked) :
        invoked[k].rc # 0 /\ k < Len(invoked) /\ Len(invoked) >= 4

-----------------------------------------------------------------------------
(* Properties of the configuration writers                                  *)

\* C6: when a config-driven tool is invoked, a document is persisted at the
\* config path it is given, that document is the one a config writer
\* resolved for that path without error, and it names the invocation's input.
C6_ConfigPersistedBeforeTool ==
    \A k \in 1..Len(invoked) :
        invoked[k].tool \in ConfigDriven =>
            /\ invoked[k].doc # NoDoc
            /\ \E c \in 1..Len(materialized) :
                  /\ materialized[c].cfg = invoked[k].cfg
                  /\ materialized[c].doc = invoked[k].doc
                  /\ materialized[c].error = "none"
            /\ invoked[k].doc.input_file_path
                  \in {invoked[k].input, List(<<invoked[k].input>>)}

\* C6 witness: focus.py has been invoked for the second input of
\* rslc_to_insar, with the second config file
C6_Witness ==
    \E k \in 1..Len(invoked) :
        /\ nb = "rslc_to_insar"
        /\ invoked[k].tool = "focus.py"
        /\ invoked[k].idx = 1
        /\ invoked[k].cfg = YmlPath(1)

\* C7: a tool that left no output artifact is the last one invoked, and the
\* run does not go on to the banner or to stage-out.
C7_OutputVerified ==
    \A k \in 1..Len(invoked) :
        ~invoked[k].wrote => /\ k = Len(invoked)
                             /\ pc \notin {"stage_out", "done"}

\* C8: a config writer that is supplied every required field raises nothing
\* and resolves a document with no null required field, and a tool given
\* that config path reads a document with no null required field.
C8_NoNullRequiredField ==
    \A k \in 1..Len(materialized) :
        Required \subseteq materialized[k].supplied =>
            /\ materialized[k].error = "none"
            /\ MissingFields(materialized[k].doc) = {}
            /\ \A j \in 1..Len(invoked) :
                  invoked[j].cfg = materialized[k].cfg =>
                      MissingFields(invoked[j].doc) = {}

\* C8 witness: alos_to_rslc has written a focus config from a template whose
\* dem_file is null, with input, output and DEM supplied
C8_Witness ==
    /\ nb = "alos_to_rslc"
    /\ FOCUS_YML = FocusTemplate
    /\ FocusTemplate.dem_file = Null
    /\ \E k \in 1..Len(materialized) :
          /\ Required \subseteq materialized[k].supplied
          /\ materialized[k].doc.dem_file = DemTiff

\* C9: a config writer that is not supplied every required field raises
\* ConfigValidationError, and no tool is invoked with the config path of
\* that call.
C9_MissingFieldRejected ==
    \A k \in 1..Len(materialized) :
        ~(Required \subseteq materialized[k].supplied) =>
            /\ materialized[k].error = "ConfigValidationError"
            /\ \A j \in 1..Len(invoked) :
                  invoked[j].cfg # materialized[k].cfg

\* C10 (as stated): the loaded templates keep the field values they were
\* loaded with, and a config writer's call writes no file.
C10_TemplateUnchanged ==
    /\ FOCUS_YML \in {NoDoc, FocusTemplate}
    /\ INSAR_YML \in {NoDoc, InsarTemplate}
    /\ GCOV_YML \in {NoDoc, GcovTemplate}

\* C10 (amended): write_focus_config of rslc_to_insar is not pure: a call
\* overwrites input_file_path, sas_output_file and sas_config_file of the
\* loaded focus template in place and dumps the template to the config path
\* in the same call.  Every other field of the loaded template, and the
\* insar template, keep the values they were loaded with.
C10_OnlyOverridesChange ==
    nb = "rslc_to_insar" =>
        /\ INSAR_YML \in {NoDoc, InsarTemplate}
        /\ FOCUS_YML # NoDoc =>
              \A f \in DOMAIN FocusTemplate \ FocusOverrides :
                  FOCUS_YML[f] = FocusTemplate[f]
        /\ \A k \in 1..Len(materialized) :
              /\ materialized[k].cfg \in DOMAIN written
              /\ \A f \in DOMAIN FocusTemplate \ FocusOverrides :
                    written[materialized[k].cfg][f] = FocusTemplate[f]
        /\ Len(materialized) > 0 =>
              FOCUS_YML = materialized[Len(materialized)].doc

\* C10 witness: the focus template has been rewritten for the second input
C10_Witness ==
    /\ nb = "rslc_to_insar"
    /\ Len(materialized) >= 2
    /\ FOCUS_YML # FocusTemplate
    /\ FOCUS_YML.input_file_path = List(<<TargetPath(1)>>)

-----------------------------------------------------------------------------
(* Cells exercised in isolation: the functions of the setup cells applied   *)
(* to arguments drawn from small sets, after the templates are loaded       *)

\* input paths, output paths and config paths a caller may pass
InputPaths == {Path(<<>>, "raw", ".h5"),
               Path(<<"data", "l0b">>, "raw", ".h5"),
               TargetPath(0)}
OutputPaths == {Path(<<"RSLC">>, "out", ".h5"), Path(<<"RSLC">>, "raw", ".h5")}
ConfigPaths == {Path(<<>>, "focus", ".yaml"), YmlPath(0)}

\* the state after the setup cell of rslc_to_insar, before any run cell
InitCells ==
    /\ InitRun
    /\ nb = "rslc_to_insar"
    /\ downloads = {}
    /\ partial = {}

\* write_focus_config(p, y) for a caller that wants input p, output o and
\* config path y: the function has no parameter for o
MaterializeFocus ==
    /\ pc = "cells"
    /\ Len(calls) < MaxCalls
    /\ \E p \in InputPaths, o \in OutputPaths, y \in ConfigPaths :
         /\ write_focus_config(p, y)
         /\ calls' = Append(calls,
                [op |-> "write_focus_config", input_file_path |-> p,
                 sas_output_file |-> o, sas_config_file |-> y,
                 doc |-> FOCUS_YML', file |-> written'[y]])
    /\ UNCHANGED <<nb, pc, err, INSAR_YML, GCOV_YML, downloads, fs, extract_dirs,
                   idx, rlsc_paths, cwd, invoked, entered, banner, dem_s3_url,
                   dem_f, bundle, printed, partial>>

\* the key paths write_insar_config assigns
InsarOverrides == {"reference_rslc_file", "secondary_rslc_file"}

\* write_insar_config(target_path, yml_path) called with the two arguments it
\* declares: its first statement reads f1, a name that is neither a parameter
\* nor a global, so the call raises NameError before anything is assigned or
\* written
MaterializeInsar ==
    /\ pc = "cells"
    /\ Len(calls) < MaxCalls
    /\ \E p \in InputPaths, y \in ConfigPaths :
         calls' = Append(calls,
            [op |-> "write_insar_config", target_path |-> p, yml_path |-> y,
             raised |-> "NameError", doc |-> INSAR_YML,
             file |-> DocAt(y)])
    /\ UNCHANGED <<nb, pc, err, FOCUS_YML, INSAR_YML, GCOV_YML, downloads, fs,
                   written, extract_dirs, idx, rlsc_paths, cwd, invoked, entered,
                   banner, dem_s3_url, dem_f, bundle, materialized, printed,
                   partial>>

\* character classes of the stage-out regex
Digits == {"0", "1", "2", "3", "4", "5", "6", "7", "8", "9"}
Letters ==
    {"A", "B", "C", "D", "E", "F", "G", "H", "I", "J", "K", "L", "M", "N", "O", "P", "Q", "R", "S", "T", "U", "V", "W", "X", "Y", "Z"}
        \cup {"a", "b", "c", "d", "e", "f", "g", "h", "i", "j", "k", "l", "m", "n", "o", "p", "q", "r", "s", "t", "u", "v", "w", "x", "y", "z"}
WordChars == Digits \cup Letters \cup {"_"}

\* a regex without alternation or variable repetition is a sequence of
\* character classes: a literal text, and class{n}
Lit(chars) == [i \in 1..Len(chars) |-> {chars[i]}]
Rep(class, n) == [i \in 1..n |-> class]

\* the part of the stage-out regex after NISAR_L<n>_PR_<product>_, up to $
RegexTail ==
    Rep(Digits, 3) \o Lit(<<"_">>) \o Rep(Digits, 3) \o Lit(<<"_">>)
      \o Rep(WordChars, 1) \o Lit(<<"_">>) \o Rep(Digits, 3) \o Lit(<<"_">>)
      \o Rep(Digits, 4) \o Lit(<<"_">>) \o Rep(WordChars, 4) \o Lit(<<"_">>)
      \o Rep(WordChars, 1) \o Lit(<<"_">>)
      \o Rep(Digits, 4) \o Rep(Digits, 2) \o Rep(Digits, 2) \o Lit(<<"T">>)
      \o Rep(Digits, 6) \o Lit(<<"_">>)
      \o Rep(Digits, 8) \o Lit(<<"T">>) \o Rep(Digits, 6) \o Lit(<<"_">>)
      \o Rep(WordChars, 6) \o Lit(<<"_">>) \o Rep(WordChars, 1) \o Lit(<<"_">>)
      \o Rep({"F", "|", "P"}, 1) \o Lit(<<"_">>) \o Rep(WordChars, 1)
      \o Lit(<<"_">>) \o Rep(Digits, 3)

\* the stage-out regex of a product type
StageOutRegex(product) ==
    IF product = "RSLC"
    THEN Lit(<<"N", "I", "S", "A", "R", "_", "L", "1", "_", "P", "R", "_", "R", "S", "L", "C", "_">>) \o RegexTail
    ELSE Lit(<<"N", "I", "S", "A", "R", "_", "L", "2", "_", "P", "R", "_", "G", "C", "O", "V", "_">>) \o RegexTail

\* the whole name matches the regex
Matches(regex, name) ==
    /\ Len(name) = Len(regex)
    /\ \A i \in 1..Len(name) : name[i] \in regex[i]

\* timestamps of the format %Y%m%dT%H%M%S
Dates == {<<"2", "0", "2", "4", "0", "1", "3", "1">>, <<"1", "9", "9", "9", "1", "2", "3", "1">>}
Times == {<<"0", "1", "2", "3", "4", "5">>, <<"0", "0", "0", "0", "0", "0">>, <<"2", "3", "5", "9", "5", "9">>}
Timestamps == {d \o <<"T">> \o t : d \in Dates, t \in Times}

\* the stage-out cell's name for a product type and a timestamp
StageName ==
    /\ pc = "cells"
    /\ Len(calls) < MaxCalls
    /\ \E product \in {"RSLC", "GCOV"}, ts \in Timestamps :
         calls' = Append(calls,
            [op |-> "regex_name", product |-> product, timestamp |-> ts,
             name |-> StageOutName(product, polarization, ts)])
    /\ UNCHANGED <<nb, pc, err, FOCUS_YML, INSAR_YML, GCOV_YML, downloads, fs,
                   written, extract_dirs, idx, rlsc_paths, cwd, invoked, entered,
                   banner, dem_s3_url, dem_f, bundle, materialized, printed,
                   partial>>

\* values of the gpu_enabled parameter: bool, int, float (in tenths), str
BoolValue(b) == [kind |-> "bool", b |-> b]
IntValue(n) == [kind |-> "int", n |-> n]
FloatValue(tenths) == [kind |-> "float", tenths |-> tenths]
StrValue(chars) == [kind |-> "str", chars |-> chars]

\* int(str): an optional sign, then one or more digits
Unsigned(chars) ==
    IF chars # << >> /\ Head(chars) \in {"+", "-"} THEN Tail(chars) ELSE chars
IsIntLiteral(chars) ==
    /\ Unsigned(chars) # << >>
    /\ \A i \in 1..Len(Unsigned(chars)) : Unsigned(chars)[i] \in Digits
DigitValue(c) == CHOOSE n \in 0..9 : ToString(n) = c
RECURSIVE ParseNat(_)
ParseNat(chars) ==
    IF chars = << >> THEN 0
    ELSE 10 * ParseNat(SubSeq(chars, 1, Len(chars) - 1))
           + DigitValue(chars[Len(chars)])
ParseInt(chars) ==
    IF Head(chars) = "-" THEN 0 - ParseNat(Unsigned(chars))
    ELSE ParseNat(Unsigned(chars))

\* int(float) truncates towards zero
Truncate(tenths) ==
    IF tenths >= 0 THEN tenths \div 10 ELSE 0 - ((0 - tenths) \div 10)

\* int(gpu_enabled): ValueError for a str that is no integer literal
int(v) ==
    CASE v.kind = "int" -> [raised |-> "none", n |-> v.n]
      [] v.kind = "float" -> [raised |-> "none", n |-> Truncate(v.tenths)]
      [] v.kind = "str" /\ IsIntLiteral(v.chars) ->
            [raised |-> "none", n |-> ParseInt(v.chars)]
      [] OTHER -> [raised |-> "ValueError", n |-> 0]

\* the parameter pre-processing cell: the try block, and the except branch,
\* whose first line calls the undefined name instance
gpu_conversion(v) ==
    IF v.kind = "bool" THEN [raised |-> "none", gpu_enabled |-> v]
    ELSE IF int(v).raised = "none"
    THEN [raised |-> "none", gpu_enabled |-> BoolValue(int(v).n > 0)]
    ELSE [raised |-> "NameError", gpu_enabled |-> v]

\* values the parameter is given: booleans, numbers, numeric strings, words
GpuValues ==
    {BoolValue(TRUE), BoolValue(FALSE)}
      \cup {IntValue(n) : n \in {-1, 0, 1, 2}}
      \cup {FloatValue(t) : t \in {0, 5, 15}}
      \cup {StrValue(c) : c \in {<<"1">>, <<"0">>, <<"1", "0">>, <<"-", "1">>,
                              <<"0", ".", "5">>, <<"1", ".", "5">>,
                              <<"t", "r", "u", "e">>, <<"T", "r", "u", "e">>, <<"T", "R", "U", "E">>,
                              <<"f", "a", "l", "s", "e">>, <<"F", "a", "l", "s", "e">>}}

\* the pre-processing cell run on a value of gpu_enabled
ConvertGpu ==
    /\ pc = "cells"
    /\ Len(calls) < MaxCalls
    /\ \E v \in GpuValues :
         calls' = Append(calls,
            [op |-> "gpu_conversion", value |-> v,
             raised |-> gpu_conversion(v).raised,
             gpu_enabled |-> gpu_conversion(v).gpu_enabled])
    /\ UNCHANGED <<nb, pc, err, FOCUS_YML, INSAR_YML, GCOV_YML, downloads, fs,
                   written, extract_dirs, idx, rlsc_paths, cwd, invoked, entered,
                   banner, dem_s3_url, dem_f, bundle, materialized, printed,
                   partial>>

\* the setup cell, then the cells under exercise
SetupCells ==
    /\ pc = "setup"
    /\ FOCUS_YML' = FocusTemplate
    /\ INSAR_YML' = InsarTemplate
    /\ pc' = "cells"
    /\ UNCHANGED <<nb, err, GCOV_YML, downloads, fs, written, extract_dirs, idx,
                   rlsc_paths, cwd, invoked, entered, banner, dem_s3_url, dem_f,
                   bundle, materialized, printed, partial, calls>>

NextCells ==
    \/ SetupCells
    \/ MaterializeFocus
    \/ StageName
    \/ ConvertGpu
    \/ MaterializeInsar

SpecCells == InitCells /\ [][NextCells]_vars

-----------------------------------------------------------------------------
(* Properties of write_focus_config                                         *)

\* C11: write_focus_config(p, y) yields, and writes at y, a document whose
\* input_file_path is the one-element list [p] and whose sas_config_file is y.
C11_InputAndConfigPath ==
    \A k \in 1..Len(calls) :
        calls[k].op = "write_focus_config" =>
            /\ calls[k].doc.input_file_path = List(<<calls[k].input_file_path>>)
            /\ calls[k].doc.sas_config_file = calls[k].sas_config_file
            /\ calls[k].file = calls[k].doc

\* C11 witness: two calls with different input paths and different config
\* paths have been made
C11_Witness ==
    /\ Len(calls) >= 2
    /\ calls[1].op = "write_focus_config"
    /\ calls[2].op = "write_focus_config"
    /\ calls[1].input_file_path # calls[2].input_file_path
    /\ calls[1].sas_config_file # calls[2].sas_config_file

\* C12 (as stated): the resolved document's sas_output_file is the output
\* path the caller supplied.
C12_OutputAsSupplied ==
    \A k \in 1..Len(calls) :
        calls[k].op = "write_focus_config" =>
            calls[k].doc.sas_output_file = calls[k].sas_output_file

\* C12 (amended): write_focus_config takes no output path; the resolved
\* document's sas_output_file is RSLC/<base name of the input path>,
\* whatever output path the caller wanted.
C12_OutputFromInput ==
    \A k \in 1..Len(calls) :
        calls[k].op = "write_focus_config" =>
            calls[k].doc.sas_output_file =
                Path(<<"RSLC">>, calls[k].input_file_path.stem,
                     calls[k].input_file_path.ext)

\* C12 witness: input data/l0b/raw.h5 with wanted output RSLC/out.h5 resolves
\* to RSLC/raw.h5
C12_Witness ==
    \E k \in 1..Len(calls) :
        /\ calls[k].op = "write_focus_config"
        /\ calls[k].input_file_path = Path(<<"data", "l0b">>, "raw", ".h5")
        /\ calls[k].sas_output_file = Path(<<"RSLC">>, "out", ".h5")
        /\ calls[k].doc.sas_output_file = Path(<<"RSLC">>, "raw", ".h5")

-----------------------------------------------------------------------------
(* Properties of the paths                                                  *)

\* the path is below the directory the run was started in
UnderWorkDir(p) == Len(p.dir) > 0 /\ p.dir[1] = WORKING_DIR[1]

\* the paths the run has written: config files, tool outputs, the bundle
PathsWritten ==
    DOMAIN written
        \cup {invoked[k].output : k \in {j \in 1..Len(invoked) : invoked[j].wrote}}
        \cup bundle

C14_RunScopedPaths ==
    \A p \in PathsWritten : UnderWorkDir(p)

\* C15: no tool is given as input a file that an earlier, cancelled run left
\* incomplete.
C15_PartialNotConsumed ==
    \A k \in 1..Len(invoked) : invoked[k].input \notin partial

-----------------------------------------------------------------------------
(* Properties of stage-out and of acquisition failures                      *)

\* the files in the stage-out directory
BundleFiles == bundle \ {Path(WORKING_DIR, regex_name, "")}

\* where stage-out puts the result artifact and the config file
StagedArtifact == join(auto_output_dir, basename(output_f))
StagedConfig == join(auto_output_dir, basename(yml_path))

\* C17 (as stated): after stage-out the directory holds exactly the two
\* sidecar files and the result artifact.
C17_ExactlySidecarsAndArtifact ==
    pc = "done" => BundleFiles = {MetJson, DatasetJson, StagedArtifact}

\* C17 (amended): after stage-out the directory holds the two sidecar files
\* and the run's config file, the result artifact exactly when the tool left
\* one, and besides these only copies of the notebook output, text and JSON
\* files of the working directory.
C17_BundleContents ==
    pc = "done" =>
        /\ {MetJson, DatasetJson, StagedConfig} \subseteq BundleFiles
        /\ StagedArtifact \in BundleFiles <=> invoked[Len(invoked)].wrote
        /\ BundleFiles \ {MetJson, DatasetJson, StagedConfig, StagedArtifact}
              \subseteq {Path(auto_output_dir, "notebook-output", ".ipynb"),
                         Path(auto_output_dir, "_stdout", ".txt"),
                         Path(auto_output_dir, "_context", ".json")}

\* C17 witness: rslc_to_gcov has staged out the product, the config file,
\* both sidecars and a copy of the notebook output
C17_Witness ==
    /\ nb = "rslc_to_gcov"
    /\ pc = "done"
    /\ StagedArtifact \in BundleFiles
    /\ Path(auto_output_dir, "notebook-output", ".ipynb") \in BundleFiles
    /\ Cardinality(BundleFiles) = 5

\* C18: when the result artifact is missing, no bundle is produced: a bundle
\* that exists holds the result artifact.
C18_NoBundleWithoutArtifact ==
    bundle # {} => StagedArtifact \in bundle

\* C19: once the archive has rejected the credentials, the run converts,
\* focuses and stages out nothing, enters no stage after ACQUIRE, and is
\* either about to fail or has failed with an exception.
C19_AuthFailureFatal ==
    "Auth failed" \in printed =>
        /\ invoked = << >>
        /\ bundle = {}
        /\ entered = <<[stage |-> "ACQUIRE", idx |-> 0]>>
        /\ pc \in {"focus_loop", "failed"}
        /\ pc = "failed" <=> err # "none"

\* C19 witness: the credentials were rejected and the run has failed
C19_Witness ==
    /\ "Auth failed" \in printed
    /\ pc = "failed"
    /\ err = "TypeError"

UPPER == <<"A", "B", "C", "D", "E", "F", "G", "H", "I", "J", "K", "L", "M", "N", "O", "P", "Q", "R", "S", "T", "U", "V", "W", "X", "Y", "Z">>
LOWER == <<"a", "b", "c", "d", "e", "f", "g", "h", "i", "j", "k", "l", "m", "n", "o", "p", "q", "r", "s", "t", "u", "v", "w", "x", "y", "z">>
lower(chars) ==
    [i \in 1..Len(chars) |->
        IF \E j \in 1..Len(UPPER) : UPPER[j] = chars[i]
        THEN LOWER[CHOOSE j \in 1..Len(UPPER) : UPPER[j] = chars[i]]
        ELSE chars[i]]
IsNumeric(chars) ==
    /\ Unsigned(chars) # << >>
    /\ \A i \in 1..Len(Unsigned(chars)) : Unsigned(chars)[i] \in Digits \cup {"."}
    /\ \E i \in 1..Len(Unsigned(chars)) : Unsigned(chars)[i] \in Digits
PositiveNumeric(chars) ==
    /\ Head(chars) # "-"
    /\ \E i \in 1..Len(chars) : chars[i] \in Digits \ {"0"}
Documented(v) ==
    CASE v.kind = "bool" -> v.b
      [] v.kind = "int" -> v.n > 0
      [] v.kind = "float" -> v.tenths > 0
      [] v.kind = "str" /\ IsNumeric(v.chars) -> PositiveNumeric(v.chars)
      [] OTHER -> lower(v.chars) = <<"t", "r", "u", "e">>

\* C20: for every boolean, number, numeric string or word given as
\* gpu_enabled, the pre-processing cell completes without raising and leaves
\* gpu_enabled the documented boolean.
C20_ConversionTotal ==
    \A k \in 1..Len(calls) :
        calls[k].op = "gpu_conversion" =>
            /\ calls[k].raised = "none"
            /\ calls[k].gpu_enabled.kind = "bool"
            /\ calls[k].gpu_enabled.b = Documented(calls[k].value)

-----------------------------------------------------------------------------
(* Properties of artifact chaining and acquisition                          *)

\* the stage s has been entered
HasEntered(s) == \E k \in 1..Len(entered) : entered[k].stage = s

\* the invocations of a tool for input index i
InvocationsOf(tool, i) ==
    {k \in 1..Len(invoked) : invoked[k].tool = tool /\ invoked[k].idx = i}

\* C21: the input path in each stage's resolved configuration is the output
\* path of the preceding stage: focus.py's input_file_path is the file the
\* converter of the same input was told to write, gcov.py's input is the
\* acquired file, and once the INTERFEROMETRIC stage has been entered a
\* resolved configuration names the outputs of the two focus.py invocations
\* as reference_rslc_file and secondary_rslc_file.
C21_ArtifactsChained ==
    /\ \A k \in 1..Len(invoked) :
          (invoked[k].tool = "focus.py" /\ invoked[k].doc # NoDoc) =>
              \E j \in InvocationsOf("alos_to_nisar_l0b.py", invoked[k].idx) :
                  /\ j < k
                  /\ invoked[k].doc.input_file_path = List(<<invoked[j].output>>)
    /\ \A k \in 1..Len(invoked) :
          (invoked[k].tool = "gcov.py" /\ invoked[k].doc # NoDoc) =>
              invoked[k].doc.input_file_path
                  = join(DOWNLOAD_DIR, basename(gcov_data_link))
    /\ HasEntered("INTERFEROMETRIC") =>
          \E c \in 1..Len(materialized) :
              /\ "reference_rslc_file" \in DOMAIN materialized[c].doc
              /\ \E a \in InvocationsOf("focus.py", 0),
                    b \in InvocationsOf("focus.py", 1) :
                    /\ materialized[c].doc.reference_rslc_file = invoked[a].output
                    /\ materialized[c].doc.secondary_rslc_file = invoked[b].output

\* C22: in rslc_to_gcov the download is started if and only if no file
\* exists at the target path (DOWNLOAD_DIR joined with the base name of the
\* link); a file that is already there is kept as it is, nothing is fetched,
\* and the run goes on with it.
C22_SkipIfExists ==
    [][(pc = "acquire" /\ nb = "rslc_to_gcov" /\ pc' # "acquire") =>
          /\ ("Downloading" \in printed') <=> (target_path \notin fs)
          /\ target_path \in fs =>
                /\ fs' = fs /\ downloads' = downloads /\ partial' = partial
                /\ "already exists, skipping download" \in printed'
                /\ pc' = "dem"]_vars

\* C22 witness: the file was already there, the download was skipped and
\* gcov.py has been given that file
C22_Witness ==
    /\ nb = "rslc_to_gcov"
    /\ "already exists, skipping download" \in printed
    /\ "Downloading" \notin printed
    /\ \E k \in 1..Len(invoked) :
          invoked[k].tool = "gcov.py" /\ invoked[k].input = target_path

\* C23: materializing a configuration never adds a key: the key paths
\* write_focus_config and write_insar_config assign exist in the templates
\* under the same group, and every document resolved or persisted has
\* exactly the key set of its template.
C23_NoKeyAdded ==
    /\ \A f \in FocusOverrides : f \in DOMAIN FocusTemplate
    /\ \A f \in InsarOverrides :
          f \in DOMAIN InsarTemplate /\ InsarGroups[f] = "input_file_group"
    /\ \A k \in 1..Len(calls) :
          /\ calls[k].op = "write_focus_config" =>
                /\ DOMAIN calls[k].doc = DOMAIN FocusTemplate
                /\ DOMAIN calls[k].file = DOMAIN FocusTemplate
          /\ calls[k].op = "write_insar_config" =>
                DOMAIN calls[k].doc = DOMAIN InsarTemplate

\* C23 witness: write_focus_config has been called twice on the shared
\* template, the second time with another config path
C23_Witness ==
    /\ Len(calls) >= 2
    /\ calls[1].op = "write_focus_config"
    /\ calls[2].op = "write_focus_config"
    /\ calls[1].sas_config_file # calls[2].sas_config_file
    /\ calls[2].doc.sas_config_file = calls[2].sas_config_file

\* the last tool of the run left its output artifact
ArtifactProduced ==
    /\ Len(invoked) > 0
    /\ invoked[Len(invoked)].output = output_f
    /\ invoked[Len(invoked)].wrote

\* C24 (as stated): stage-out copies the result artifact: after packaging
\* the artifact is in the stage-out directory and still exists at the
\* product path where the stage produced it.
C24_ArtifactCopied ==
    (pc = "done" /\ ArtifactProduced) =>
        /\ StagedArtifact \in bundle
        /\ output_f \in fs

\* C24 (amended): stage-out moves the result artifact: after packaging the
\* artifact the stage produced is in the stage-out directory and no longer
\* exists at the product path.
C24_ArtifactMoved ==
    pc = "done" =>
        /\ output_f \notin fs
        /\ ArtifactProduced => StagedArtifact \in bundle /\ StagedArtifact \in fs

\* C24 witness: alos_to_rslc produced its RSLC and has staged it out
C24_Witness ==
    /\ nb = "alos_to_rslc"
    /\ pc = "done"
    /\ ArtifactProduced
    /\ StagedArtifact \in bundle

-----------------------------------------------------------------------------
(* Properties of download_alos_data and of the focus loop                   *)

\* the directories the two requested archives are extracted to
RequestedDirs ==
    {abspath(splitext0(basename(u)), EXTRACT_DIR) : u \in {rslc_1, rslc_2}}

\* download_alos_data has returned a list
Returned == nb = "rslc_to_insar" /\ extract_dirs # << >> /\ extract_dirs # None

\* C25: download_alos_data, called with two URLs and valid credentials,
\* returns one path per requested URL and none for any other file, whatever
\* DOWNLOAD_DIR held before the call.
C25_ExactlyRequested ==
    Returned =>
        /\ Len(extract_dirs) = 2
        /\ {extract_dirs[k] : k \in 1..Len(extract_dirs)} = RequestedDirs

\* the run has ended: the stage-out cell has finished, or a cell raised
Terminal == pc \in {"done", "failed"}

\* C26: every run ends: it reaches completed stage-out or FAILED and does
\* not stay in an intermediate stage for ever.
C26_Terminates == <>Terminal

\* C26 witness: rslc_to_insar has gone through its loop for every returned
\* path and has ended
C26_Witness ==
    /\ Returned
    /\ Terminal
    /\ idx = Len(extract_dirs)
    /\ Len(invoked) = 2 * Len(extract_dirs)

-----------------------------------------------------------------------------
(* Properties of the DEM selection of rslc_to_gcov                          *)

\* dem_s3_url is a non-empty string
DemGiven == IsStr(dem_s3_url) /\ dem_s3_url # ""

\* the else branch of the DEM selection has been taken
StageDemRoute == "downloading DEM via stage_dem.py instead" \in printed

\* C27: in rslc_to_gcov the DEM comes by exactly one route and the DEM path
\* handed to the GCOV configuration is defined: with a non-empty string
\* dem_s3_url it is the downloaded file and stage_dem.py is not run;
\* otherwise stage_dem.py is run and the path is PRODUCT_DIR/dem_0.tiff.
C27_OneDemRoute ==
    nb = "rslc_to_gcov" =>
        /\ StageDemRoute => ~ DemGiven /\ dem_f = DemTiff /\ DownloadedDem \notin fs
        /\ DemGiven => ~ StageDemRoute /\ DemTiff \notin fs
                        /\ dem_f \in {Null, DownloadedDem}
        /\ pc \in {"gcov_cfg", "gcov", "stage_out", "done"} =>
              /\ dem_f # Null
              /\ StageDemRoute \/ DownloadedDem \in fs
        /\ \A c \in 1..Len(materialized) :
              /\ materialized[c].doc.dem_file # Null
              /\ materialized[c].doc.dem_file
                    = IF DemGiven THEN DownloadedDem ELSE DemTiff

\* C27 witness: a run with a dem_s3_url has downloaded the DEM and a run
\* state exists where gcov.py was given a configuration naming it
C27_Witness ==
    /\ nb = "rslc_to_gcov"
    /\ DemGiven
    /\ \E k \in 1..Len(invoked) :
          invoked[k].tool = "gcov.py" /\ invoked[k].doc.dem_file = DownloadedDem

-----------------------------------------------------------------------------
(* Properties of download_alos_data and of the focus loop, continued        *)

\* C28: download_alos_data leaves the working directory as it found it on
\* every exit path: normal return, authentication failure, a failed
\* download, an entry that cannot be extracted.
C28_CwdRestored ==
    [][(pc = "acquire" /\ nb = "rslc_to_insar") => cwd' = cwd]_vars

\* C28 witness: the function has returned after unzip failed on an entry of
\* DOWNLOAD_DIR, and the working directory is the one the run started in
C28_Witness ==
    /\ Returned
    /\ \E k \in 1..Len(extract_dirs) : extract_dirs[k] \notin fs
    /\ cwd = WORKING_DIR

\* the indices the focus loop has written a configuration for
Written == 0..(Len(materialized) - 1)

\* C29: in the focus loop each index has its own config file and target
\* file, and the config file persisted for index i names index i's target
\* as its only input, index i's output and its own path, whatever the
\* shared template held from earlier iterations.
C29_PerIndexConfig ==
    nb = "rslc_to_insar" =>
        \A i \in Written :
            LET target == TargetPath(i)
                yml == YmlPath(i)
            IN  /\ \A j \in 0..(i - 1) :
                      yml # YmlPath(j) /\ target # TargetPath(j)
                /\ rlsc_paths[i + 1] = target
                /\ yml \in DOMAIN written
                /\ LET file == written[yml]
                   IN  /\ file.input_file_path = List(<<target>>)
                       /\ file.sas_output_file
                             = join(<<"RSLC">>, basename(target))
                       /\ file.sas_config_file = yml

\* C29 witness: the loop has written a third configuration, and the first
\* one still names the first input
C29_Witness ==
    /\ nb = "rslc_to_insar"
    /\ Len(materialized) = 3
    /\ written[YmlPath(0)].input_file_path = List(<<TargetPath(0)>>)
    /\ written[YmlPath(2)].input_file_path = List(<<TargetPath(2)>>)
    /\ FOCUS_YML.sas_config_file = YmlPath(2)

=============================================================================
